---- MODULE Spec2Model ----
(***************************************************************************)
(* Model of the competition-ingestion service (src/src/scrapers.rs): the   *)
(* three scrapers, the fuzzy duplicate detection, the provenance merge and *)
(* the two HTTP handlers that persist what the scrapers return.            *)
(*                                                                         *)
(* A Rust String is modelled as a sequence of characters, each character a *)
(* one-character TLA+ string, so that replace, trim, split, contains and   *)
(* the trailing-tag regular expression are computed as the code computes   *)
(* them.                                                                   *)
(***************************************************************************)
EXTENDS Integers, Sequences, FiniteSets, TLC

(***************************************************************************)
(* Characters and the str methods the code calls.                          *)
(***************************************************************************)

\* char::is_whitespace, restricted to the white space the model's inputs use.
Whitespace == {" ", "\t", "\n"}

UpperChars == <<"A","B","C","D","E","F","G","H","I","J","K","L","M",
                "N","O","P","Q","R","S","T","U","V","W","X","Y","Z">>

LowerChars == <<"a","b","c","d","e","f","g","h","i","j","k","l","m",
                "n","o","p","q","r","s","t","u","v","w","x","y","z">>

\* char::to_lowercase on the characters of the model.
to_lowercase_char(c) ==
    IF \E i \in 1..26 : UpperChars[i] = c
    THEN LowerChars[CHOOSE i \in 1..26 : UpperChars[i] = c]
    ELSE IF c = "É" THEN "é"
    ELSE c

\* str::to_lowercase
to_lowercase(s) == [i \in 1..Len(s) |-> to_lowercase_char(s[i])]

\* The prefix test str::replace and str::contains rest on.
starts_with(s, p) ==
    /\ Len(p) <= Len(s)
    /\ \A i \in 1..Len(p) : s[i] = p[i]

\* s with its first n characters dropped.
Drop(s, n) == SubSeq(s, n + 1, Len(s))

\* str::contains(&str): the empty pattern is contained in every string.
contains(s, p) ==
    \E i \in 0..(Len(s) - Len(p)) : \A j \in 1..Len(p) : s[i + j] = p[j]

\* str::contains(char)
contains_char(s, c) == \E i \in 1..Len(s) : s[i] = c

\* str::replace(from, ""): the non-overlapping matches of a non-empty pattern,
\* found left to right, are removed.
RECURSIVE replace(_, _)
replace(s, from) ==
    IF Len(s) < Len(from) THEN s
    ELSE IF starts_with(s, from) THEN replace(Drop(s, Len(from)), from)
    ELSE <<s[1]>> \o replace(Tail(s), from)

\* str::trim
trim(s) ==
    LET keep == {i \in 1..Len(s) : s[i] \notin Whitespace}
    IN  IF keep = {} THEN <<>>
        ELSE SubSeq(s, CHOOSE i \in keep : \A j \in keep : i <= j,
                       CHOOSE i \in keep : \A j \in keep : j <= i)

\* str::split_whitespace: the maximal runs of non-white-space characters.
RECURSIVE split_whitespace(_)
split_whitespace(s) ==
    IF s = <<>> THEN <<>>
    ELSE IF s[1] \in Whitespace THEN split_whitespace(Tail(s))
    ELSE LET stops == {i \in 1..Len(s) : s[i] \in Whitespace}
             n == IF stops = {} THEN Len(s)
                  ELSE (CHOOSE i \in stops : \A j \in stops : i <= j) - 1
         IN  <<SubSeq(s, 1, n)>> \o split_whitespace(Drop(s, n))

\* [&str]::join(sep)
RECURSIVE join(_, _)
join(parts, sep) ==
    IF parts = <<>> THEN <<>>
    ELSE IF Len(parts) = 1 THEN parts[1]
    ELSE parts[1] \o sep \o join(Tail(parts), sep)

\* str::len counts bytes: a character outside ASCII takes two.
TwoByteChars == {"é", "É"}

RECURSIVE len(_)
len(s) ==
    IF s = <<>> THEN 0
    ELSE (IF s[1] \in TwoByteChars THEN 2 ELSE 1) + len(Tail(s))

(***************************************************************************)
(* clean_competition_name, calculate_similarity and fuzzy_match.           *)
(***************************************************************************)

\* The regular expression \s*\[.*?\]\s*$ of clean_competition_name, replaced
\* by "": a match ends at the end of the text, so the last character that is
\* not white space must be "]"; it starts at the leftmost "[" from which the
\* lazy .*? reaches that "]" without crossing a line break (. matches no
\* "\n"), together with the white space just before that "[".
strip_source_tag(name) ==
    LET n == Len(name)
        solid == {i \in 1..n : name[i] \notin Whitespace}
        k == IF solid = {} THEN 0
             ELSE CHOOSE i \in solid : \A j \in solid : j <= i
        opens == IF k = 0 \/ name[k] # "]" THEN {}
                 ELSE {j \in 1..(k - 1) :
                          /\ name[j] = "["
                          /\ \A m \in (j + 1)..(k - 1) : name[m] # "\n"}
    IN  IF opens = {} THEN name
        ELSE LET j == CHOOSE o \in opens : \A o2 \in opens : o <= o2
                 lead == {i \in 1..j : \A m \in i..(j - 1) : name[m] \in Whitespace}
                 i == CHOOSE a \in lead : \A b \in lead : a <= b
             IN  SubSeq(name, 1, i - 1)

\* The patterns clean_competition_name removes, in the order of its chain of
\* replace calls.
StopPatterns == <<
    <<"H","K","U">>, <<"U","S","T">>, <<"H","K","U","S","T">>,
    <<"T","h","e">>, <<"t","h","e">>, <<"A">>, <<"a">>,
    <<"A","n">>, <<"a","n">>, <<"A","n","d">>, <<"a","n","d">>,
    <<"O","f">>, <<"o","f">>, <<"I","n">>, <<"i","n">>,
    <<"O","n">>, <<"o","n">>, <<"A","t">>, <<"a","t">>,
    <<"T","o">>, <<"t","o">>, <<"F","o","r">>, <<"f","o","r">>,
    <<"W","i","t","h">>, <<"w","i","t","h">>, <<"B","y">>, <<"b","y">>,
    <<"U","p">>, <<"u","p">>,
    <<"C","o","m","p","e","t","i","t","i","o","n">>,
    <<"c","o","m","p","e","t","i","t","i","o","n">>,
    <<"C","a","s","e">>, <<"c","a","s","e">>,
    <<"C","h","a","l","l","e","n","g","e">>,
    <<"c","h","a","l","l","e","n","g","e">>,
    <<"H","a","c","k","a","t","h","o","n">>,
    <<"h","a","c","k","a","t","h","o","n">>,
    <<"D","a","t","a","t","h","o","n">>,
    <<"d","a","t","a","t","h","o","n">>,
    <<"P","r","o","g","r","a","m">>, <<"p","r","o","g","r","a","m">>,
    <<"E","v","e","n","t">>, <<"e","v","e","n","t">>,
    <<"S","e","s","s","i","o","n">>, <<"s","e","s","s","i","o","n">>,
    <<"W","o","r","k","s","h","o","p">>, <<"w","o","r","k","s","h","o","p">>,
    <<"S","e","m","i","n","a","r">>, <<"s","e","m","i","n","a","r">>,
    <<"D","e","a","d","l","i","n","e">>, <<"d","e","a","d","l","i","n","e">>,
    <<"R","e","g","i","s","t","e","r">>, <<"r","e","g","i","s","t","e","r">>,
    <<"J","o","i","n">>, <<"j","o","i","n">>,
    <<"N","O","W">>, <<"n","o","w">> >>

\* The chain .replace(p1, "").replace(p2, "")... applied from pattern i on
\* (nothing is left to remove from the empty string).
RECURSIVE replace_chain(_, _)
replace_chain(s, i) ==
    IF s = <<>> \/ i > Len(StopPatterns) THEN s
    ELSE replace_chain(replace(s, StopPatterns[i]), i + 1)

clean_competition_name(name) ==
    LET cleaned == trim(strip_source_tag(name))
    IN  join(split_whitespace(trim(replace_chain(cleaned, 1))), <<" ">>)

\* A similarity that divides by the shorter length instead of the longer.
calculate_similarity_min(a, b) ==
    LET s1 == to_lowercase(trim(a))
        s2 == to_lowercase(trim(b))
    IN  IF s1 = <<>> /\ s2 = <<>> THEN <<1, 1>>
        ELSE IF s1 = <<>> \/ s2 = <<>> THEN <<0, 1>>
        ELSE IF s1 = s2 THEN <<1, 1>>
        ELSE LET common_chars ==
                     Cardinality({i \in 1..Len(s1) : contains_char(s2, s1[i])})
                 total_chars == IF len(s1) <= len(s2) THEN len(s1) ELSE len(s2)
             IN  <<common_chars, total_chars>>

\* calculate_similarity returns common_chars / total_chars as an f64; the
\* model keeps the fraction exact, as the pair <<numerator, denominator>>.
\* The two early returns of 1.0 are <<1, 1>>, the return of 0.0 is <<0, 1>>.
calculate_similarity(a, b) ==
    LET s1 == to_lowercase(trim(a))
        s2 == to_lowercase(trim(b))
    IN  IF s1 = <<>> /\ s2 = <<>> THEN <<1, 1>>
        ELSE IF s1 = <<>> \/ s2 = <<>> THEN <<0, 1>>
        ELSE IF s1 = s2 THEN <<1, 1>>
        ELSE LET common_chars ==
                     Cardinality({i \in 1..Len(s1) : contains_char(s2, s1[i])})
                 total_chars == IF len(s1) >= len(s2) THEN len(s1) ELSE len(s2)
             IN  <<common_chars, total_chars>>

\* f > num/den for a fraction f = <<n, d>> with d > 0. The thresholds of the
\* code (0.75, 0.7, 0.5, 0.4) are compared strictly; the quotients at hand
\* are far from the rounding error of f32 and f64, and a quotient equal to a
\* threshold rounds to the same float as the literal.
exceeds(f, num, den) == f[1] * den > num * f[2]

\* The closure of fuzzy_match that decides whether word1 has a partner.
word_has_partner(word1, words2) ==
    \E k \in 1..Len(words2) :
        LET word2 == words2[k]
        IN  /\ len(word2) > 2
            /\ \/ word1 = word2
               \/ contains(word1, word2)
               \/ contains(word2, word1)
               \/ exceeds(calculate_similarity(word1, word2), 7, 10)

SeqRange(s) == {s[i] : i \in 1..Len(s)}

\* A match by exact name.
exact_match(name1, name2) == name1 = name2

fuzzy_match(name1, name2) ==
    LET name1_lower == to_lowercase(clean_competition_name(name1))
        name2_lower == to_lowercase(clean_competition_name(name2))
        words1 == split_whitespace(name1_lower)
        words2 == split_whitespace(name2_lower)
        common_words ==
            Cardinality({i \in 1..Len(words1) :
                            len(words1[i]) > 2 /\ word_has_partner(words1[i], words2)})
        max_len == IF Len(words1) >= Len(words2) THEN Len(words1) ELSE Len(words2)
        all_words == SeqRange(words1) \cup SeqRange(words2)
    IN  \/ name1_lower = name2_lower
        \/ contains(name1_lower, name2_lower)
        \/ contains(name2_lower, name1_lower)
        \/ exceeds(calculate_similarity(name1_lower, name2_lower), 3, 4)
        \/ (max_len > 0 /\ exceeds(<<common_words, max_len>>, 1, 2))
        \/ (all_words # {} /\ exceeds(<<common_words, Cardinality(all_words)>>, 2, 5))

(***************************************************************************)
(* The Competition document and the three scrapers.                        *)
(***************************************************************************)

\* Option<T>: None is the empty sequence, Some(v) the sequence of v alone.
None == <<>>
Some(v) == <<v>>

\* Result<T, E>: the errors of the model carry nothing the code looks at.
Err == <<>>
Ok(v) == <<v>>

\* A date the code takes from chrono::Utc::now().
Now == "now"

\* Scraper::name() of HkuScraper, HkustScraper and CtfTimeScraper.
HkuScraper == "HkuScraper"
HkustScraper == "HkustScraper"
CtfTimeScraper == "CtfTimeScraper"

name(scraper) ==
    CASE scraper = HkuScraper -> <<"H","K","U">>
      [] scraper = HkustScraper -> <<"H","K","U","S","T">>
      [] scraper = CtfTimeScraper -> <<"C","T","F","T","i","m","e">>

\* What a site serves when it is fetched.  An HTML page is modelled by the
\* texts of the elements the selectors pick (a.card-blk__item p.card-blk__title
\* for HKU, tr h3 for HKUST), in document order; the CTFTime body is either
\* not a JSON array (Malformed) or the list of its event objects, an absent
\* or non-string field being None.
Malformed == [json_array |-> FALSE, events |-> <<>>]
JsonArray(events) == [json_array |-> TRUE, events |-> events]

T_HkuDatathon == <<"H","K","U"," ","D","a","t","a","t","h","o","n"," ","2","0","2","4">>
T_Datathon == <<"D","a","t","a","t","h","o","n"," ","2","0","2","4">>
T_CyberCup == <<"C","y","b","e","r"," ","C","u","p">>
T_CareerTalk == <<"C","a","r","e","e","r"," ","T","a","l","k">>

StartTime == "2024-06-01T00:00:00+00:00"
FinishTime == "2024-06-02T00:00:00+00:00"

Event_CyberCup ==
    [title |-> Some(T_CyberCup), start |-> Some(StartTime), finish |-> Some(FinishTime),
     url |-> Some("https://ctftime.org/event/1"), description |-> None,
     max_team_size |-> Some(4)]

\* Event objects with no "finish", no "title" and no "start" member.
Event_NoFinish ==
    [title |-> Some(T_Datathon), start |-> Some(StartTime), finish |-> None,
     url |-> None, description |-> Some("quals"), max_team_size |-> None]

Event_NoTitle ==
    [title |-> None, start |-> Some(StartTime), finish |-> Some(FinishTime),
     url |-> None, description |-> None, max_team_size |-> None]

Event_NoStart ==
    [title |-> Some(T_CyberCup), start |-> None, finish |-> Some(FinishTime),
     url |-> None, description |-> None, max_team_size |-> None]

HkuPages == {<<>>, <<T_CyberCup>>, <<T_HkuDatathon, T_HkuDatathon>>}
HkustPages == {<<T_CareerTalk, T_Datathon>>}
CtfTimePages ==
    {Malformed, JsonArray(<<Event_NoFinish, Event_CyberCup, Event_NoTitle, Event_NoStart>>)}

Pages(scraper) ==
    CASE scraper = HkuScraper -> HkuPages
      [] scraper = HkustScraper -> HkustPages
      [] scraper = CtfTimeScraper -> CtfTimePages

\* The Competition each scraper builds from one title: format!("{} [TAG]").
\* A candidate that names no source.
HkuCompetition_unsourced(title) ==
    [id |-> None, name |-> title \o <<" ","[","H","K","U","]">>, date |-> Now,
     host |-> "HKU", source |-> <<>>, description |-> None,
     signup_deadline |-> None, location |-> None, registration_link |-> None,
     max_participants |-> None, status |-> Some("upcoming")]

HkuCompetition(title) ==
    [id |-> None, name |-> title \o <<" ","[","H","K","U","]">>, date |-> Now,
     host |-> "HKU", source |-> <<"H","K","U">>, description |-> None,
     signup_deadline |-> None, location |-> None, registration_link |-> None,
     max_participants |-> None, status |-> Some("upcoming")]

HkustCompetition(title) ==
    [id |-> None, name |-> title \o <<" ","[","U","S","T","]">>, date |-> Now,
     host |-> "HKUST", source |-> <<"H","K","U","S","T">>, description |-> None,
     signup_deadline |-> None, location |-> None, registration_link |-> None,
     max_participants |-> None, status |-> Some("upcoming")]

\* An absent url or description is "" (.or(Some(""))), and "" becomes None;
\* the start of the model's events parses as RFC 3339.
CtfTimeCompetition(event) ==
    [id |-> None, name |-> event.title[1] \o <<" ","[","C","T","F","]">>,
     date |-> event.start[1],
     host |-> "CTFTime", source |-> <<"C","T","F","T","i","m","e">>,
     description |-> IF event.description \in {None, Some("")} THEN None
                     ELSE event.description,
     signup_deadline |-> None, location |-> Some("Online"),
     registration_link |-> IF event.url \in {None, Some("")} THEN None ELSE event.url,
     max_participants |-> event.max_team_size, status |-> Some("upcoming")]

\* The keyword filter of HkustScraper::scrape.
Keywords == << <<"C","a","s","e">>,
               <<"C","h","a","l","l","e","n","g","e">>,
               <<"C","o","m","p","e","t","i","t","i","o","n">>,
               <<"H","a","c","k","a","t","h","o","n">>,
               <<"D","a","t","a","t","h","o","n">> >>

matches_keyword(title_text) ==
    \E k \in 1..Len(Keywords) :
        contains(to_lowercase(title_text), to_lowercase(Keywords[k]))

\* An if-let that forgets "finish".
event_has_title_and_start(event) ==
    event.title # None /\ event.start # None

\* The if-let of CtfTimeScraper::scrape: title, start and finish must all be
\* strings; url and description never fail the pattern.
event_is_complete(event) ==
    event.title # None /\ event.start # None /\ event.finish # None

\* The candidates a scraper builds from the page it fetched, in order, before
\* the duplicate check; Err when the body cannot be deserialized
\* (serde_json::from_str(&body)?).
extract(scraper, page) ==
    CASE scraper = HkuScraper ->
            Ok([i \in 1..Len(page) |-> HkuCompetition(trim(page[i]))])
      [] scraper = HkustScraper ->
            LET titles == SelectSeq([i \in 1..Len(page) |-> trim(page[i])],
                                    matches_keyword)
            IN  Ok([i \in 1..Len(titles) |-> HkustCompetition(titles[i])])
      [] scraper = CtfTimeScraper ->
            IF ~page.json_array THEN Err
            ELSE LET events == SelectSeq(page.events, event_is_complete)
                 IN  Ok([i \in 1..Len(events) |-> CtfTimeCompetition(events[i])])

(***************************************************************************)
(* ScraperManager.                                                         *)
(***************************************************************************)

\* HashMap::insert(scraper.name().to_lowercase(), scraper)
register_scraper(scrapers, scraper) ==
    LET key == to_lowercase(name(scraper))
    IN  [k \in DOMAIN scrapers \cup {key} |-> IF k = key THEN scraper ELSE scrapers[k]]

\* ScraperManager::new(): the three default scrapers, keyed by lower-cased name.
ScraperManager_new ==
    register_scraper(
        register_scraper(
            register_scraper(<<>>, HkuScraper),
            HkustScraper),
        CtfTimeScraper)

\* HashMap::keys()
get_scraper_names(scrapers) == DOMAIN scrapers

\* HashMap::values() iterates in an order the hasher's random state decides:
\* every order of the keys is possible.
ValuesOrders(scrapers) ==
    {order \in [1..Cardinality(DOMAIN scrapers) -> DOMAIN scrapers] :
        \A i, j \in DOMAIN order : i # j => order[i] # order[j]}

(***************************************************************************)
(* The competitions collection.                                            *)
(***************************************************************************)

\* Documents a client may have stored through create_competition before any
\* ingestion request: hand-entered events, whose source is free text.
Seed_Datathon ==
    [id |-> None, name |-> T_Datathon, date |-> StartTime, host |-> "HKU",
     source |-> <<"h","k","u">>, description |-> Some("Annual datathon"),
     signup_deadline |-> None, location |-> Some("Main campus"),
     registration_link |-> None, max_participants |-> Some(100),
     status |-> Some("upcoming")]

Seed_CyberCup ==
    [id |-> None, name |-> T_CyberCup, date |-> StartTime, host |-> "Club",
     source |-> <<"W","e","b">>, description |-> None,
     signup_deadline |-> None, location |-> None,
     registration_link |-> None, max_participants |-> None, status |-> None]

CreatePool == {Seed_Datathon, Seed_CyberCup}

\* At most this many documents are created by hand.
MaxSeeds == 1

\* At most this many ingestion requests are served, the later ones possibly
\* while the earlier ones are still running.
NumRequests == 2

Requests == 1..NumRequests

\* Every name a document or a candidate of the model can carry.
NamePool ==
    {c.name : c \in CreatePool} \cup
    UNION {UNION {LET items == extract(scraper, page)
                  IN  IF items = Err THEN {}
                      ELSE {items[1][i].name : i \in 1..Len(items[1])}
                  : page \in Pages(scraper)}
           : scraper \in {HkuScraper, HkustScraper, CtfTimeScraper}}

\* fuzzy_match on the names of the model, evaluated once.
FuzzyMatchTable == [a \in NamePool |-> [b \in NamePool |-> fuzzy_match(a, b)]]

\* A duplicate check that compares the documents' ids with the candidate's,
\* which a scraped candidate never has.
is_duplicate_by_id(collection, new_comp) ==
    \E i \in 1..Len(collection) : collection[i].id = new_comp.id

\* is_duplicate_competition: the candidate fuzzy-matches some document of the
\* collection as it is read now.
is_duplicate_competition(collection, new_comp) ==
    \E i \in 1..Len(collection) : FuzzyMatchTable[new_comp.name][collection[i].name]

\* existing.source.split(',').map(|s| s.trim()).collect()
RECURSIVE split_comma(_)
split_comma(s) ==
    LET commas == {i \in 1..Len(s) : s[i] = ","}
    IN  IF commas = {} THEN <<s>>
        ELSE LET i == CHOOSE a \in commas : \A b \in commas : a <= b
             IN  <<SubSeq(s, 1, i - 1)>> \o split_comma(Drop(s, i))

sources_of(source) ==
    LET parts == split_comma(source)
    IN  [i \in 1..Len(parts) |-> trim(parts[i])]

\* A merge that $sets source to scraper_name alone instead of the joined list.
RECURSIVE update_targets_overwrite(_, _, _)
update_targets_overwrite(collection, comp_name, scraper_name) ==
    IF collection = <<>> THEN <<>>
    ELSE LET existing == collection[1]
         IN  (IF /\ FuzzyMatchTable[comp_name][existing.name]
                 /\ scraper_name \notin SeqRange(sources_of(existing.source))
              THEN <<[id |-> existing.id, source |-> scraper_name]>>
              ELSE <<>>)
             \o update_targets_overwrite(Tail(collection), comp_name, scraper_name)

\* The writes update_existing_competition_source is going to issue, from the
\* documents it has just read: for every document that fuzzy-matches the
\* name and whose sources lack scraper_name, $set source to the sources
\* joined by ", " with scraper_name pushed at the end.
RECURSIVE update_targets(_, _, _)
update_targets(collection, comp_name, scraper_name) ==
    IF collection = <<>> THEN <<>>
    ELSE LET existing == collection[1]
             sources == sources_of(existing.source)
         IN  (IF /\ FuzzyMatchTable[comp_name][existing.name]
                 /\ scraper_name \notin SeqRange(sources)
              THEN <<[id |-> existing.id,
                      source |-> join(Append(sources, scraper_name), <<",", " ">>)]>>
              ELSE <<>>)
             \o update_targets(Tail(collection), comp_name, scraper_name)

\* An update that removes the document and puts a copy with the new source
\* at the end, under no id.
set_source_reinsert(collection, id, new_source) ==
    LET kept == {i \in 1..Len(collection) : collection[i].id # id}
        gone == {i \in 1..Len(collection) : collection[i].id = id}
        nth(k) == CHOOSE i \in kept : Cardinality({j \in kept : j < i}) = k - 1
    IN  [k \in 1..Cardinality(kept) |-> collection[nth(k)]] \o
        (IF gone = {} THEN <<>>
         ELSE <<[collection[CHOOSE i \in gone : TRUE] EXCEPT
                    !.id = None, !.source = new_source]>>)

\* update_one({_id: id}, {$set: {source: new_source}})
set_source(collection, id, new_source) ==
    [i \in 1..Len(collection) |->
        IF collection[i].id = id
        THEN [collection[i] EXCEPT !.source = new_source]
        ELSE collection[i]]

\* find_one({name: comp_name}): the first document with exactly that name.
find_one_by_name(collection, comp_name) ==
    LET hits == {i \in 1..Len(collection) : collection[i].name = comp_name}
    IN  IF hits = {} THEN None
        ELSE Some(collection[CHOOSE i \in hits : \A j \in hits : i <= j])

\* The source the handlers write when find_one found a document: the existing
\* sources, then each source of the candidate that is not among them.
RECURSIVE push_missing(_, _)
push_missing(sources, new_sources) ==
    IF new_sources = <<>> THEN sources
    ELSE push_missing(IF new_sources[1] \in SeqRange(sources) THEN sources
                      ELSE Append(sources, new_sources[1]),
                      Tail(new_sources))

updated_source(existing_comp, competition) ==
    join(push_missing(sources_of(existing_comp.source), sources_of(competition.source)),
         <<",", " ">>)

(***************************************************************************)
(* State.                                                                  *)
(*                                                                         *)
(* db       the competitions collection, in insertion order                *)
(* next_id  the next ObjectId the store hands out                          *)
(* req      the ingestion requests: for each its position in the handler,  *)
(*          the handler's and the current scraper's local variables, and   *)
(*          a record of what it was asked and has done so far              *)
(*          (scraper_name, catalog_before, ran, failed, fetched, inserted, *)
(*          storage_error), written but never read by the actions, and the *)
(*          status and message of its answer                               *)
(* probe    the inputs and results of the matching functions when they are *)
(*          exercised on their own (SpecMatch, SpecSimilarity), and the    *)
(*          ScraperManager when it is exercised on its own (SpecList), and *)
(*          the last update request and its answer (SpecUpdate), and the   *)
(*          query and the pagination made of it (SpecPagination)           *)
(***************************************************************************)
VARIABLES db, next_id, req, probe

vars == <<db, next_id, req, probe>>

ScraperTypes == {HkuScraper, HkustScraper, CtfTimeScraper}

IdleRequest ==
    [pc |-> "idle", kind |-> "none", order |-> <<>>, items |-> <<>>,
     competitions |-> <<>>, all_competitions |-> <<>>, pending |-> <<>>,
     saved |-> 0, existing |-> None, competitions_count |-> 0, status |-> "none",
     scraper_name |-> None, catalog_before |-> <<>>, ran |-> {}, failed |-> {}, fetched |-> [t \in ScraperTypes |-> None],
     inserted |-> 0, storage_error |-> FALSE, message |-> None]

ProbeOff == [pc |-> "off"]

Init ==
    /\ db = <<>>
    /\ next_id = 1
    /\ req = [r \in Requests |-> IdleRequest]
    /\ probe = ProbeOff

Active(r) == req[r].pc \notin {"idle", "done"}

\* The handler returns (or its task dies): its local variables are dropped.
respond(q, status) ==
    [q EXCEPT !.pc = "done", !.status = status, !.order = <<>>, !.items = <<>>,
              !.competitions = <<>>, !.pending = <<>>, !.existing = None,
              !.message =
                  IF status # "OK" THEN None
                  ELSE IF q.kind = "all"
                       THEN Some(<<"All scrapers ran successfully">>)
                       ELSE Some(<<"Scraper '", q.scraper_name[1],
                                   "' ran successfully">>)]

\* The handlers' "Save the scraped competitions to the database" part begins:
\* competitions_count is taken and the loop entered.
begin_save(q, competitions) ==
    LET q1 == [q EXCEPT !.all_competitions = competitions,
                        !.competitions_count = Len(competitions),
                        !.order = <<>>, !.items = <<>>, !.competitions = <<>>,
                        !.pending = <<>>, !.saved = 0]
    IN  IF competitions = <<>> THEN respond(q1, "OK")
        ELSE [q1 EXCEPT !.pc = "save_find"]

\* A run_all_scrapers that returns a scraper's error with ? instead of
\* printing it: the handler answers INTERNAL_SERVER_ERROR.
after_scraper_abort(q, result) ==
    LET q1 == [q EXCEPT !.items = <<>>, !.competitions = <<>>, !.pending = <<>>]
    IN  IF result = Err
        THEN respond([q1 EXCEPT !.failed = @ \cup {ScraperManager_new[q.order[1]]}],
                     IF q.kind = "all" THEN "INTERNAL_SERVER_ERROR" ELSE "NOT_FOUND")
        ELSE IF q.kind = "all"
        THEN LET q2 == [q1 EXCEPT !.all_competitions = @ \o result[1],
                                  !.order = Tail(@)]
             IN  IF q2.order = <<>> THEN begin_save(q2, q2.all_competitions)
                 ELSE [q2 EXCEPT !.pc = "scrape"]
        ELSE begin_save(q1, result[1])

\* The current scraper's scrape() has returned result, Err or its vector of
\* competitions.  ScraperManager::run_all_scrapers appends the vector or
\* prints the error, and goes on with the next scraper; when none is left it
\* returns Ok(all_competitions).  ScraperManager::run_scraper returns the
\* result as it is, and run_specific_scraper answers NOT_FOUND to any Err.
after_scraper(q, result) ==
    LET scraper == ScraperManager_new[q.order[1]]
        q1 == [q EXCEPT !.failed = IF result = Err THEN @ \cup {scraper} ELSE @,
                        !.items = <<>>, !.competitions = <<>>, !.pending = <<>>]
    IN  IF q.kind = "all"
        THEN LET q2 == [q1 EXCEPT !.all_competitions =
                                      IF result = Err THEN @ ELSE @ \o result[1],
                                  !.order = Tail(@)]
             IN  IF q2.order = <<>> THEN begin_save(q2, q2.all_competitions)
                 ELSE [q2 EXCEPT !.pc = "scrape"]
        ELSE IF result = Err THEN respond(q1, "NOT_FOUND")
             ELSE begin_save(q1, result[1])

\* The scraper's loop over its titles moves to the next one, or ends with
\* Ok(competitions).
next_item(q) ==
    IF Len(q.items) = 1 THEN after_scraper(q, Ok(q.competitions))
    ELSE [q EXCEPT !.pc = "dup", !.items = Tail(@), !.pending = <<>>]

(***************************************************************************)
(* Actions.                                                                *)
(***************************************************************************)

\* POST /competitions (create_competition): the document is inserted as it
\* was submitted, under a fresh id.  The model creates documents by hand only
\* before the first ingestion request.
create_competition(competition) ==
    /\ \A r \in Requests : req[r].pc = "idle"
    /\ Len(db) < MaxSeeds
    /\ db' = Append(db, [competition EXCEPT !.id = Some(next_id)])
    /\ next_id' = next_id + 1
    /\ UNCHANGED <<req, probe>>

\* A request arrives; requests are numbered in the order of their arrival.
Arrive(r, q) ==
    /\ req[r].pc = "idle"
    /\ \A p \in Requests : p < r => req[p].pc # "idle"
    /\ req' = [req EXCEPT ![r] = [q EXCEPT !.catalog_before = db]]
    /\ UNCHANGED <<db, next_id, probe>>

\* POST /scrapers/run (run_all_scrapers): a fresh ScraperManager, whose
\* scrapers are run one after the other in the map's iteration order.
run_all_scrapers(r) ==
    \E order \in ValuesOrders(ScraperManager_new) :
        Arrive(r, [IdleRequest EXCEPT !.pc = "scrape", !.kind = "all", !.order = order])

\* The names a client asks run_specific_scraper for.
RequestNames == { <<"H","K","U">>, <<"h","k","u","s","t">>,
                  <<"c","t","f","t","i","m","e">>, <<"M","I","T">> }

\* A run_specific_scraper that answers an unknown name with an empty success.
run_specific_scraper_ok(r, scraper_name) ==
    LET key == to_lowercase(scraper_name)
        q == [IdleRequest EXCEPT !.kind = "one", !.scraper_name = Some(scraper_name)]
    IN  IF key \in DOMAIN ScraperManager_new
        THEN Arrive(r, [q EXCEPT !.pc = "scrape", !.order = <<key>>])
        ELSE Arrive(r, respond(q, "OK"))

\* POST /scrapers/:name (run_specific_scraper, ScraperManager::run_scraper):
\* the scraper registered under the lower-cased name is run, and NOT_FOUND
\* answered when there is none.
run_specific_scraper(r, scraper_name) ==
    LET key == to_lowercase(scraper_name)
        q == [IdleRequest EXCEPT !.kind = "one", !.scraper_name = Some(scraper_name)]
    IN  IF key \in DOMAIN ScraperManager_new
        THEN Arrive(r, [q EXCEPT !.pc = "scrape", !.order = <<key>>])
        ELSE Arrive(r, respond(q, "NOT_FOUND"))

\* scrape() up to its loop: the page is fetched (the fetch may fail, Err) and the
\* titles or events are taken from it.
Scrape(r) ==
    /\ req[r].pc = "scrape"
    /\ LET scraper == ScraperManager_new[req[r].order[1]]
       IN  \E fetch \in {Ok(page) : page \in Pages(scraper)} \cup {Err} :
             LET result == IF fetch = Err THEN Err ELSE extract(scraper, fetch[1])
                 q == [req[r] EXCEPT !.ran = @ \cup {scraper},
                                     !.fetched = [@ EXCEPT ![scraper] = fetch]]
             IN  req' = [req EXCEPT ![r] =
                            IF result = Err \/ result = Ok(<<>>)
                            THEN after_scraper(q, result)
                            ELSE [q EXCEPT !.pc = "dup", !.items = result[1],
                                           !.competitions = <<>>]]
    /\ UNCHANGED <<db, next_id, probe>>

\* is_duplicate_competition for the scraper's current candidate: the whole
\* collection is read (a failing read panics on unwrap(), which ends the
\* request's task without an answer) and the candidate kept when no document
\* fuzzy-matches it.
IsDuplicate(r) ==
    /\ req[r].pc = "dup"
    /\ \E ok \in BOOLEAN :
         LET q == req[r]
             competition == q.items[1]
         IN  req' = [req EXCEPT ![r] =
                        IF ~ok THEN respond([q EXCEPT !.storage_error = TRUE], "PANIC")
                        ELSE IF is_duplicate_competition(db, competition)
                        THEN [q EXCEPT !.pc = "update_find"]
                        ELSE next_item([q EXCEPT !.competitions = Append(@, competition)])]
    /\ UNCHANGED <<db, next_id, probe>>

\* update_existing_competition_source reads the whole collection (unwrap()
\* again) and settles which documents it is going to write.
UpdateFind(r) ==
    /\ req[r].pc = "update_find"
    /\ \E ok \in BOOLEAN :
         LET q == req[r]
             scraper == ScraperManager_new[q.order[1]]
             targets == update_targets(db, q.items[1].name, name(scraper))
         IN  req' = [req EXCEPT ![r] =
                        IF ~ok THEN respond([q EXCEPT !.storage_error = TRUE], "PANIC")
                        ELSE IF targets = <<>> THEN next_item(q)
                        ELSE [q EXCEPT !.pc = "update_write", !.pending = targets]]
    /\ UNCHANGED <<db, next_id, probe>>

\* One update_one of update_existing_competition_source; its failure is
\* returned with ? and makes scrape() fail.
UpdateWrite(r) ==
    /\ req[r].pc = "update_write"
    /\ \E ok \in BOOLEAN :
         LET q == req[r]
             target == q.pending[1]
         IN  IF ok
             THEN /\ db' = set_source(db, target.id, target.source)
                  /\ req' = [req EXCEPT ![r] =
                                IF Len(q.pending) = 1 THEN next_item(q)
                                ELSE [q EXCEPT !.pending = Tail(@)]]
             ELSE /\ db' = db
                  /\ req' = [req EXCEPT ![r] =
                                after_scraper([q EXCEPT !.storage_error = TRUE], Err)]
    /\ UNCHANGED <<next_id, probe>>

\* The handler's find_one by exact name for the next competition to save.
SaveFind(r) ==
    /\ req[r].pc = "save_find"
    /\ \E ok \in BOOLEAN :
         LET q == req[r]
             competition == q.all_competitions[q.saved + 1]
         IN  req' = [req EXCEPT ![r] =
                        IF ~ok
                        THEN respond([q EXCEPT !.storage_error = TRUE],
                                     "INTERNAL_SERVER_ERROR")
                        ELSE [q EXCEPT !.pc = "save_write",
                                       !.existing = find_one_by_name(db, competition.name)]]
    /\ UNCHANGED <<db, next_id, probe>>

\* The handler's write for that competition: update_one of the source when
\* find_one found a document, insert_one otherwise; then the next competition,
\* or the answer.
SaveWrite(r) ==
    /\ req[r].pc = "save_write"
    /\ \E ok \in BOOLEAN :
         LET q == req[r]
             competition == q.all_competitions[q.saved + 1]
             q1 == [q EXCEPT !.saved = @ + 1, !.existing = None,
                             !.inserted = IF q.existing = None THEN @ + 1 ELSE @]
         IN  IF ok
             THEN /\ IF q.existing # None
                     THEN /\ db' = set_source(db, q.existing[1].id,
                                              updated_source(q.existing[1], competition))
                          /\ next_id' = next_id
                     ELSE /\ db' = Append(db, [competition EXCEPT !.id = Some(next_id)])
                          /\ next_id' = next_id + 1
                  /\ req' = [req EXCEPT ![r] =
                                IF q1.saved = Len(q.all_competitions)
                                THEN respond(q1, "OK")
                                ELSE [q1 EXCEPT !.pc = "save_find"]]
             ELSE /\ UNCHANGED <<db, next_id>>
                  /\ req' = [req EXCEPT ![r] =
                                respond([q EXCEPT !.storage_error = TRUE],
                                        "INTERNAL_SERVER_ERROR")]
    /\ UNCHANGED probe

\* One step of a request that is being served.
Serve(r) ==
    \/ Scrape(r)
    \/ IsDuplicate(r)
    \/ UpdateFind(r)
    \/ UpdateWrite(r)
    \/ SaveFind(r)
    \/ SaveWrite(r)

\* No request is being served.
Quiet == \A r \in Requests : ~Active(r)

\* The service with its requests sent one at a time: a request arrives when
\* the one before it has been answered.
Next ==
    \/ \E competition \in CreatePool : create_competition(competition)
    \/ \E r \in Requests : Quiet /\ run_all_scrapers(r)
    \/ \E r \in Requests : \E scraper_name \in RequestNames :
           Quiet /\ run_specific_scraper(r, scraper_name)
    \/ \E r \in Requests : Serve(r)

Spec == Init /\ [][Next]_vars

\* The service with requests for single scrapers that overlap: a request may
\* arrive while another is being served, and the steps of the two interleave
\* at every await of a store operation.
NextOverlap ==
    \/ \E competition \in CreatePool : create_competition(competition)
    \/ \E r \in Requests : \E scraper_name \in RequestNames :
           run_specific_scraper(r, scraper_name)
    \/ \E r \in Requests : Serve(r)

SpecOverlap == Init /\ [][NextOverlap]_vars

(***************************************************************************)
(* The matching functions on their own: a title and a title to compare it  *)
(* with are drawn, the title is cleaned, the result cleaned again, and the *)
(* two titles are matched.                                                 *)
(***************************************************************************)

\* The words the titles are made of.
ProbeWords == { <<"H","K","U">>,
                <<"D","a","t","a","t","h","o","n">>,
                <<"2","0","2","4">>,
                <<"C","a","l","i","f","o","r","n","i","a">> }

\* A title has at most this many words.
MaxWords == 3

\* The tag a scraper has appended, if any.
ProbeTags == { <<>>, <<" ","[","H","K","U","]">>, <<" ","[","U","S","T","]">> }

ProbeTitles ==
    {join(words, <<" ">>) \o tag :
        words \in UNION {[1..n -> ProbeWords] : n \in 1..MaxWords}, tag \in ProbeTags}

ProbeOthers == {HkustCompetition(T_Datathon).name, CtfTimeCompetition(Event_CyberCup).name}

\* Titles that are matched with each other only.
T_RoboticsChallenge ==
    <<"R","o","b","o","t","i","c","s"," ","C","h","a","l","l","e","n","g","e">>

T_UnderwaterPhotographyContest ==
    <<"U","n","d","e","r","w","a","t","e","r"," ","P","h","o","t","o","g","r",
      "a","p","h","y"," ","C","o","n","t","e","s","t">>

T_RobotWars ==
    <<"R","o","b","o","t"," ","W","a","r","s">>

T_RobotsRoboticsRoboticExpo ==
    <<"R","o","b","o","t","s"," ","R","o","b","o","t","i","c","s"," ","R","o",
      "b","o","t","i","c"," ","E","x","p","o">>

T_LowerCaseStops ==
    <<"h","k","u"," ","T","H","E"," ","N","o","w"," ","Q","u","i","z">>

T_BracketedYear ==
    <<"Q","u","i","z"," ","[","2","0","2","4","]"," ","F","i","n","a","l">>

ProbePairs == { <<T_RoboticsChallenge, T_UnderwaterPhotographyContest>>,
                <<T_BracketedYear, CtfTimeCompetition(Event_CyberCup).name>>,
                <<T_RobotWars, T_RobotsRoboticsRoboticExpo>>,
                <<T_LowerCaseStops, CtfTimeCompetition(Event_CyberCup).name>> }

InitMatch ==
    /\ db = <<>>
    /\ next_id = 1
    /\ req = [r \in Requests |-> IdleRequest]
    /\ \E pair \in (ProbeTitles \X ProbeOthers) \cup ProbePairs :
         probe = [pc |-> "title", title |-> pair[1], other |-> pair[2],
                  cleaned |-> <<>>, recleaned |-> <<>>, matched |-> FALSE]

CleanName ==
    /\ probe.pc = "title"
    /\ probe' = [probe EXCEPT !.pc = "cleaned",
                              !.cleaned = clean_competition_name(probe.title)]
    /\ UNCHANGED <<db, next_id, req>>

CleanAgain ==
    /\ probe.pc = "cleaned"
    /\ probe' = [probe EXCEPT !.pc = "recleaned",
                              !.recleaned = clean_competition_name(probe.cleaned)]
    /\ UNCHANGED <<db, next_id, req>>

Match ==
    /\ probe.pc = "recleaned"
    /\ probe' = [probe EXCEPT !.pc = "matched",
                              !.matched = fuzzy_match(probe.title, probe.other)]
    /\ UNCHANGED <<db, next_id, req>>

NextMatch == CleanName \/ CleanAgain \/ Match

SpecMatch == InitMatch /\ [][NextMatch]_vars

(***************************************************************************)
(* calculate_similarity on its own: the two arguments are drawn from every *)
(* string of at most MaxLen characters over SimilarityChars (a lower-case  *)
(* letter, an upper-case letter, a space and a two-byte letter).           *)
(***************************************************************************)

SimilarityChars == {"a", "B", " ", "é"}

MaxLen == 2

SimilarityStrings == UNION {[1..n -> SimilarityChars] : n \in 0..MaxLen}

InitSimilarity ==
    /\ db = <<>>
    /\ next_id = 1
    /\ req = [r \in Requests |-> IdleRequest]
    /\ \E s1 \in SimilarityStrings : \E s2 \in SimilarityStrings :
         probe = [pc |-> "args", s1 |-> s1, s2 |-> s2, similarity |-> <<0, 1>>]

Similarity ==
    /\ probe.pc = "args"
    /\ probe' = [probe EXCEPT !.pc = "similarity",
                              !.similarity = calculate_similarity(probe.s1, probe.s2)]
    /\ UNCHANGED <<db, next_id, req>>

NextSimilarity == Similarity

SpecSimilarity == InitSimilarity /\ [][NextSimilarity]_vars

(***************************************************************************)
(* The ScraperManager and list_scrapers on their own.  register_scraper is *)
(* public: the managers considered are those built by at most              *)
(* MaxRegistered registrations, ScraperManager::new() among them.          *)
(***************************************************************************)

MaxRegistered == 4

Registrations == UNION {[1..n -> ScraperTypes] : n \in 0..MaxRegistered}

InitList ==
    /\ db = <<>>
    /\ next_id = 1
    /\ req = [r \in Requests |-> IdleRequest]
    /\ \E registrations \in Registrations :
         probe = [pc |-> "new", registrations |-> registrations, registered |-> {},
                  scrapers |-> <<>>, scraper_names |-> <<>>]

\* manager.register_scraper(Box::new(scraper)) for the next scraper.
Register ==
    /\ probe.pc = "new"
    /\ probe.registrations # <<>>
    /\ probe' = [probe EXCEPT
                    !.registrations = Tail(@),
                    !.registered = @ \cup {Head(probe.registrations)},
                    !.scrapers = register_scraper(@, Head(probe.registrations))]
    /\ UNCHANGED <<db, next_id, req>>

\* The handler's answer: the keys of the manager's map, in the order the map
\* iterates them.
list_scrapers ==
    /\ probe.pc = "new"
    /\ probe.registrations = <<>>
    /\ \E scraper_names \in ValuesOrders(probe.scrapers) :
         probe' = [probe EXCEPT !.pc = "listed", !.scraper_names = scraper_names]
    /\ UNCHANGED <<db, next_id, req>>

NextList == Register \/ list_scrapers

SpecList == InitList /\ [][NextList]_vars

(***************************************************************************)
(* update_competition (src/src/competitions.rs) on a collection of         *)
(* documents created by hand, one client sending one request at a time.    *)
(* probe holds the last request and its answer.                            *)
(***************************************************************************)

\* At most this many update requests are sent.
MaxUpdates == 2

\* The {id} of the path: the hexadecimal form of an ObjectId, or some other
\* string.
UpdatePaths == {[well_formed |-> TRUE, oid |-> 1], [well_formed |-> TRUE, oid |-> 2],
                [well_formed |-> FALSE, oid |-> 0]}

ObjectId_parse_str(id) == IF id.well_formed THEN Ok(id.oid) ELSE Err

UpdatePool ==
    CreatePool \cup
    {[Seed_CyberCup EXCEPT !.status = Some("completed")],
     [Seed_Datathon EXCEPT !.id = Some(2), !.host = "HKUST"]}

OptionalFields == {"description", "signup_deadline", "location",
                   "registration_link", "max_participants", "status"}

\* bson::to_document(&competition) with "_id" removed, applied as $set: the
\* fields that are None are skipped by the serializer and keep their stored
\* value, every other field but the id takes the submitted value.
set_document(existing, competition) ==
    [f \in DOMAIN existing |->
        IF f = "id" THEN existing[f]
        ELSE IF f \in OptionalFields /\ competition[f] = None THEN existing[f]
        ELSE competition[f]]

\* update_one({_id: object_id}, {$set: update_doc})
update_one_set(collection, object_id, competition) ==
    [i \in 1..Len(collection) |->
        IF collection[i].id = Some(object_id)
        THEN set_document(collection[i], competition)
        ELSE collection[i]]

\* UpdateResult.modified_count: the documents the update has changed.
modified_count(collection, updated) ==
    Cardinality({i \in 1..Len(collection) : collection[i] # updated[i]})

\* find_one({_id: object_id})
find_one_by_id(collection, object_id) ==
    LET found == {i \in 1..Len(collection) : collection[i].id = Some(object_id)}
    IN  IF found = {} THEN None
        ELSE Some(collection[CHOOSE i \in found : \A j \in found : i <= j])

InitUpdate ==
    /\ db = <<>>
    /\ next_id = 1
    /\ req = [r \in Requests |-> IdleRequest]
    /\ probe = [pc |-> "none", updates |-> 0, id |-> None, competition |-> None,
                before |-> <<>>, status |-> "none", data |-> None,
                storage_error |-> FALSE]

\* PUT /competitions/{id}
update_competition(id, competition) ==
    /\ probe.updates < MaxUpdates
    /\ \E update_ok, find_ok \in BOOLEAN :
         LET object_id == ObjectId_parse_str(id)
             updated == update_one_set(db, object_id[1], competition)
             found == find_one_by_id(updated, object_id[1])
             answer(collection, status, data, failed) ==
                 /\ db' = collection
                 /\ probe' = [pc |-> "updated", updates |-> probe.updates + 1,
                              id |-> Some(id), competition |-> Some(competition),
                              before |-> db, status |-> status, data |-> data,
                              storage_error |-> failed]
         IN  IF object_id = Err THEN answer(db, "BAD_REQUEST", None, FALSE)
             ELSE IF ~update_ok THEN answer(db, "INTERNAL_SERVER_ERROR", None, TRUE)
             ELSE IF modified_count(db, updated) = 0
                  THEN answer(updated, "NOT_FOUND", None, FALSE)
             ELSE IF ~find_ok THEN answer(updated, "INTERNAL_SERVER_ERROR", None, TRUE)
             ELSE IF found = None THEN answer(updated, "NOT_FOUND", None, FALSE)
             ELSE answer(updated, "OK", found, FALSE)
    /\ UNCHANGED <<next_id, req>>

NextUpdate ==
    \/ \E competition \in CreatePool : create_competition(competition)
    \/ \E id \in UpdatePaths : \E competition \in UpdatePool :
           update_competition(id, competition)

SpecUpdate == InitUpdate /\ [][NextUpdate]_vars

(***************************************************************************)
(* The pagination of get_competitions (src/src/competitions.rs).  A u32 is *)
(* held as two 16-bit limbs, [hi, lo] standing for hi * 2^16 + lo, so that *)
(* the 32-bit multiplication is computed exactly.                          *)
(***************************************************************************)

Limb == 2^16

u32(hi, lo) == [hi |-> hi, lo |-> lo]

\* The page values of the query: 0, 1, 2, 3, 42949673, 42949674 (the first
\* page whose skip at limit 100 exceeds u32::MAX), 2^31 and u32::MAX.
PageValues == {u32(0, 0), u32(0, 1), u32(0, 2), u32(0, 3), u32(655, 23593),
               u32(655, 23594), u32(32768, 0), u32(65535, 65535)}

\* The limit values of the query: 0, 1, 10, 100, 101, 65536 and u32::MAX.
LimitValues == {u32(0, 0), u32(0, 1), u32(0, 10), u32(0, 100), u32(0, 101),
                u32(1, 0), u32(65535, 65535)}

\* u32::max and u32::min
u32_le(a, b) == a.hi < b.hi \/ (a.hi = b.hi /\ a.lo <= b.lo)
u32_max(a, b) == IF u32_le(a, b) THEN b ELSE a
u32_min(a, b) == IF u32_le(a, b) THEN a ELSE b

\* page.saturating_sub(1)
saturating_sub_1(a) ==
    IF a.lo > 0 THEN u32(a.hi, a.lo - 1)
    ELSE IF a.hi > 0 THEN u32(a.hi - 1, Limb - 1)
    ELSE u32(0, 0)

\* a * b for b below 2^16, before it is reduced to 32 bits: the high limb of
\* the result is Limb or more exactly when the product exceeds u32::MAX.
full_mul(a, b) ==
    LET low == a.lo * b.lo
    IN  u32(a.hi * b.lo + low \div Limb, low % Limb)

\* The u32 a wrapping multiplication leaves.
wrapping(product) == u32(product.hi % Limb, product.lo)

InitPagination ==
    /\ db = <<>>
    /\ next_id = 1
    /\ req = [r \in Requests |-> IdleRequest]
    /\ \E page \in {None} \cup {Some(v) : v \in PageValues} :
       \E limit \in {None} \cup {Some(v) : v \in LimitValues} :
         probe = [pc |-> "query", query_page |-> page, query_limit |-> limit,
                  page |-> u32(0, 0), limit |-> u32(0, 0), skip |-> u32(0, 0),
                  status |-> "none"]

\* GET /competitions up to its FindOptions.  The multiplication of
\* create_pagination_options is a plain u32 "*": when the product exceeds
\* u32::MAX a build with overflow checks (the dev profile) panics and a build
\* without them (the release profile) wraps.
get_competitions ==
    /\ probe.pc = "query"
    /\ LET page == u32_max(IF probe.query_page = None THEN u32(0, 1)
                           ELSE probe.query_page[1], u32(0, 1))
           limit == u32_min(IF probe.query_limit = None THEN u32(0, 10)
                            ELSE probe.query_limit[1], u32(0, 100))
           product == full_mul(saturating_sub_1(page), limit)
       IN  \E overflow_checks \in BOOLEAN :
             probe' = IF product.hi >= Limb /\ overflow_checks
                      THEN [probe EXCEPT !.pc = "done", !.page = page,
                                         !.limit = limit, !.status = "PANIC"]
                      ELSE [probe EXCEPT !.pc = "done", !.page = page,
                                         !.limit = limit, !.status = "OK",
                                         !.skip = wrapping(product)]
    /\ UNCHANGED <<db, next_id, req>>

NextPagination == get_competitions

SpecPagination == InitPagination /\ [][NextPagination]_vars

(***************************************************************************)
(* Properties.                                                             *)
(***************************************************************************)

\* Request r is the one served last.
Latest(r) ==
    /\ req[r].pc # "idle"
    /\ \A p \in Requests : p > r => req[p].pc = "idle"

\* The candidates a scraper takes from what its fetch returned, none when the
\* fetch or the deserialization failed.
Candidates(scraper, fetch) ==
    IF fetch = Err THEN <<>>
    ELSE LET result == extract(scraper, fetch[1])
         IN  IF result = Err THEN <<>> ELSE result[1]

\* A document but for its source.
Unsourced(doc) == [doc EXCEPT !.source = <<>>]

\* Request r + 1 re-runs request r: the same handler on the same scrapers,
\* each fetching what it fetched for r, after r was answered OK with no store
\* operation failing.
Rerun(r) ==
    /\ req[r].pc = "done"
    /\ req[r].status = "OK"
    /\ ~req[r].storage_error
    /\ req[r + 1].pc # "idle"
    /\ req[r + 1].kind = req[r].kind
    /\ req[r + 1].ran = req[r].ran
    /\ req[r + 1].fetched = req[r].fetched

C2_InsertedOnlyIfNoMatch ==
    req[1].pc # "idle" =>
        \A j \in (Len(req[1].catalog_before) + 1)..Len(db) :
            \A i \in 1..(j - 1) : ~FuzzyMatchTable[db[j].name][db[i].name]

\* What a merge of source id s may do to the collection in one step: no document is added or removed, at most one document changes, and
\* that one only in its source, which lacked s and is now the old sources
\* followed by s.
MergeFrame(s) ==
    /\ Len(db') = Len(db)
    /\ Cardinality({i \in 1..Len(db) : db'[i] # db[i]}) <= 1
    /\ \A i \in 1..Len(db) :
         db'[i] # db[i] =>
            /\ Unsourced(db'[i]) = Unsourced(db[i])
            /\ s \notin SeqRange(sources_of(db[i].source))
            /\ sources_of(db'[i].source) = Append(sources_of(db[i].source), s)

\* C3: every step of update_existing_competition_source, and every step of a
\* handler that found the competition's name in the collection, keeps to
\* MergeFrame for the source id of the competition being merged.
C3_MergeChangesOnlyProvenance ==
    [][\A r \in Requests :
          /\ (req[r].pc \in {"update_find", "update_write"} /\ req'[r] # req[r])
                => MergeFrame(name(ScraperManager_new[req[r].order[1]]))
          /\ (req[r].pc = "save_write" /\ req[r].existing # None /\ req'[r] # req[r])
                => MergeFrame(req[r].all_competitions[req[r].saved + 1].source)
      ]_vars

\* The CTFTime scraper has merged "Cyber Cup [CTF]" into the document the HKU
\* scraper had inserted: its source went from "HKU" to "HKU, CTFTime".
C3_Witness ==
    /\ req[2].ran = {CtfTimeScraper}
    /\ req[2].pc = "done"
    /\ \E i \in 1..Len(db) :
         /\ db[i].name = HkuCompetition(T_CyberCup).name
         /\ db[i].source = <<"H","K","U",",", " ","C","T","F","T","i","m","e">>
         /\ Unsourced(db[i]) = Unsourced([HkuCompetition(T_CyberCup) EXCEPT !.id = db[i].id])

\* C4: a run of all scrapers in which no store operation fails is answered
\* OK after every registered scraper was run, whichever of them failed and at
\* whatever position, and every candidate of a scraper that did not fail which
\* matched no document when the run began is in the collection under its name,
\* with the scraper among its sources.
C4_PartialFailureTolerated ==
    \A r \in Requests :
        (req[r].kind = "all" /\ req[r].pc = "done" /\ ~req[r].storage_error) =>
            /\ req[r].status = "OK"
            /\ req[r].ran = ScraperTypes
            /\ \A t \in ScraperTypes \ req[r].failed :
                 LET cs == Candidates(t, req[r].fetched[t])
                 IN  \A k \in 1..Len(cs) :
                        ~is_duplicate_competition(req[r].catalog_before, cs[k]) =>
                            \E i \in 1..Len(db) :
                                /\ db[i].name = cs[k].name
                                /\ name(t) \in SeqRange(sources_of(db[i].source))

\* The fetch of the HKU scraper failed, and the candidates of the two others
\* were inserted.
C4_Witness ==
    /\ req[1].kind = "all"
    /\ req[1].pc = "done"
    /\ req[1].status = "OK"
    /\ req[1].failed = {HkuScraper}
    /\ req[1].fetched[HkuScraper] = Err
    /\ req[1].inserted = 2
    /\ Len(db) = 2

\* C5: when all requests have been answered, every request answered OK with
\* no store operation failing has left its scraper's name in the sources of
\* every document that was there when it arrived and fuzzy-matches one of its
\* candidates.
C5_NoLostUpdate ==
    (\A r \in Requests : req[r].pc \in {"idle", "done"}) =>
        \A r \in Requests :
            (req[r].pc = "done" /\ req[r].status = "OK" /\ ~req[r].storage_error) =>
                \A t \in req[r].ran \ req[r].failed :
                    LET cs == Candidates(t, req[r].fetched[t])
                    IN  \A k \in 1..Len(cs) :
                          \A i \in 1..Len(req[r].catalog_before) :
                             FuzzyMatchTable[cs[k].name][db[i].name] =>
                                name(t) \in SeqRange(sources_of(db[i].source))

\* C6: no document's sources hold two identifiers that are equal when
\* compared without regard to case.
C6_NoDuplicateSources ==
    \A i \in 1..Len(db) :
        LET sources == sources_of(db[i].source)
        IN  \A a, b \in 1..Len(sources) :
                a # b => to_lowercase(sources[a]) # to_lowercase(sources[b])

\* C7: a request for a scraper name that is not registered is answered
\* NOT_FOUND at once, no scraper is run for it, and while it is the last
\* request the collection is as it was when the request arrived.
C7_UnregisteredNotFound ==
    \A r \in Requests :
        (/\ req[r].kind = "one"
         /\ to_lowercase(req[r].scraper_name[1]) \notin get_scraper_names(ScraperManager_new))
        => /\ req[r].pc = "done"
           /\ req[r].status = "NOT_FOUND"
           /\ req[r].ran = {}
           /\ req[r].inserted = 0
           /\ Latest(r) => db = req[r].catalog_before

\* A request for "MIT" on a collection of one document.
C7_Witness ==
    /\ req[1].scraper_name = Some(<<"M","I","T">>)
    /\ req[1].status = "NOT_FOUND"
    /\ Len(db) = 1

\* The events of a JSON array but for those lacking title, start or finish.
RECURSIVE WithoutLacking(_)
WithoutLacking(events) ==
    IF events = <<>> THEN <<>>
    ELSE (IF events[1].title = None \/ events[1].start = None \/ events[1].finish = None
          THEN <<>> ELSE <<events[1]>>)
         \o WithoutLacking(Tail(events))

\* The competitions of a vector that CtfTimeScraper built.
RECURSIVE FromCtfTime(_)
FromCtfTime(competitions) ==
    IF competitions = <<>> THEN <<>>
    ELSE (IF competitions[1].host = "CTFTime" THEN <<competitions[1]>> ELSE <<>>)
         \o FromCtfTime(Tail(competitions))

\* The candidates that fuzzy-match no document of the collection.
RECURSIVE Fresh(_, _)
Fresh(candidates, collection) ==
    IF candidates = <<>> THEN <<>>
    ELSE (IF \E i \in 1..Len(collection) :
                 FuzzyMatchTable[candidates[1].name][collection[i].name]
          THEN <<>> ELSE <<candidates[1]>>)
         \o Fresh(Tail(candidates), collection)

\* C8: a request that ran the CTFTime scraper on a JSON array, no store
\* operation failing, is answered OK with no failure of the scraper, and the
\* competitions it took from CTFTime are those it would have taken from the
\* array without the events that lack title, start or finish: a document was
\* inserted, and the source of a document extended, for those only.
C8_IncompleteEventSkipped ==
    \A r \in Requests :
        (/\ req[r].pc = "done"
         /\ ~req[r].storage_error
         /\ CtfTimeScraper \in req[r].ran
         /\ req[r].fetched[CtfTimeScraper] # Err
         /\ req[r].fetched[CtfTimeScraper][1].json_array)
        => LET page == req[r].fetched[CtfTimeScraper][1]
               kept == extract(CtfTimeScraper, JsonArray(WithoutLacking(page.events)))[1]
           IN  /\ req[r].status = "OK"
               /\ CtfTimeScraper \notin req[r].failed
               /\ FromCtfTime(req[r].all_competitions) = Fresh(kept, req[r].catalog_before)
               /\ \A i \in 1..Len(db) :
                    (/\ name(CtfTimeScraper) \in SeqRange(sources_of(db[i].source))
                     /\ (i > Len(req[r].catalog_before) \/
                         name(CtfTimeScraper) \notin
                             SeqRange(sources_of(req[r].catalog_before[i].source))))
                    => \E k \in 1..Len(kept) : FuzzyMatchTable[kept[k].name][db[i].name]

\* The CTFTime scraper was run alone on the array of four events, three of
\* them lacking a member, beside a hand-made "Datathon 2024": "Cyber Cup [CTF]"
\* was inserted and the hand-made document left as it was.
C8_Witness ==
    /\ req[1].ran = {CtfTimeScraper}
    /\ req[1].fetched[CtfTimeScraper] # Err
    /\ Len(req[1].fetched[CtfTimeScraper][1].events) = 4
    /\ req[1].pc = "done"
    /\ req[1].status = "OK"
    /\ req[1].inserted = 1
    /\ Len(db) = 2
    /\ db[1].name = T_Datathon
    /\ db[1] = req[1].catalog_before[1]
    /\ db[2].name = CtfTimeCompetition(Event_CyberCup).name

\* C9: cleaning a cleaned title gives the cleaned title.
C9_CleanIdempotent ==
    probe.pc \in {"recleaned", "matched"} => probe.recleaned = probe.cleaned

\* C10: "HKU Datathon 2024 [HKU]" fuzzy-matches "Datathon 2024 [UST]".
C10_DatathonMatches ==
    (/\ probe.pc = "matched"
     /\ probe.title = <<"H","K","U"," ","D","a","t","a","t","h","o","n"," ",
                        "2","0","2","4"," ","[","H","K","U","]">>
     /\ probe.other = <<"D","a","t","a","t","h","o","n"," ","2","0","2","4",
                        " ","[","U","S","T","]">>)
    => probe.matched

\* The two titles have been matched, and the title's cleaned form is the
\* other's.
C10_Witness ==
    /\ probe.pc = "matched"
    /\ probe.title = HkuCompetition(T_HkuDatathon).name
    /\ probe.other = HkustCompetition(T_Datathon).name
    /\ probe.cleaned = clean_competition_name(probe.other)
    /\ probe.matched

\* C11: "Robotics Challenge" does not fuzzy-match "Underwater Photography
\* Contest".
C11_RoboticsDoesNotMatch ==
    (/\ probe.pc = "matched"
     /\ probe.title = <<"R","o","b","o","t","i","c","s"," ","C","h","a","l","l",
                      "e","n","g","e">>
     /\ probe.other = <<"U","n","d","e","r","w","a","t","e","r"," ","P","h","o",
                      "t","o","g","r","a","p","h","y"," ","C","o","n","t","e",
                      "s","t">>)
    => ~probe.matched

\* The two titles have been matched: they clean to "Robotics Chllenge" and
\* "Underwter Phogrphy Ctest", of which neither contains the other.
C11_Witness ==
    /\ probe.pc = "matched"
    /\ probe.title = T_RoboticsChallenge
    /\ probe.other = T_UnderwaterPhotographyContest
    /\ probe.cleaned = <<"R","o","b","o","t","i","c","s"," ","C","h","l","l",
                        "e","n","g","e">>
    /\ clean_competition_name(probe.other) =
         <<"U","n","d","e","r","w","t","e","r"," ","P","h","o","g","r","p",
           "h","y"," ","C","t","e","s","t">>
    /\ ~probe.matched

\* C12: the similarity of two strings lies in [0, 1]; a non-empty string has
\* similarity 1 with itself; two empty strings have similarity 1; a non-empty
\* string, also one made only of whitespace, has similarity 0 with the empty
\* string.
C12_SimilarityBoundaries ==
    probe.pc = "similarity" =>
        /\ 0 <= probe.similarity[1]
        /\ 0 < probe.similarity[2]
        /\ probe.similarity[1] <= probe.similarity[2]
        /\ (probe.s1 # <<>> /\ probe.s2 = probe.s1) =>
               probe.similarity[1] = probe.similarity[2]
        /\ (probe.s1 = <<>> /\ probe.s2 = <<>>) =>
               probe.similarity[1] = probe.similarity[2]
        /\ (probe.s1 # <<>> /\ probe.s2 = <<>>) =>
               probe.similarity[1] = 0

\* C13: when the first request found the collection empty (documents are
\* created by hand only before the first request), every document of the
\* collection has a non-empty name and a non-empty source of which every
\* identifier is non-empty; a scraper gives even an empty title a non-empty
\* name and source.
C13_NameAndSourceNonEmpty ==
    (req[1].pc # "idle" /\ req[1].catalog_before = <<>>) =>
        /\ \A i \in 1..Len(db) :
               /\ db[i].name # <<>>
               /\ db[i].source # <<>>
               /\ \A k \in 1..Len(sources_of(db[i].source)) :
                      sources_of(db[i].source)[k] # <<>>
        /\ \A competition \in {HkuCompetition(<<>>), HkustCompetition(<<>>),
                                CtfTimeCompetition([Event_CyberCup EXCEPT
                                                       !.title = Some(<<>>)])} :
               competition.name # <<>> /\ competition.source # <<>>

\* Two requests have been answered from an empty collection, the second has
\* inserted a document, and a document carries two identifiers.
C13_Witness ==
    /\ req[1].catalog_before = <<>>
    /\ req[1].pc = "done"
    /\ req[2].pc = "done"
    /\ req[2].inserted > 0
    /\ \E i \in 1..Len(db) : Len(sources_of(db[i].source)) = 2

\* C14: list_scrapers answers exactly the source identifiers: every string of
\* the answer is the name() of a registered scraper (the string the scraper
\* writes into the source of its documents), and every registered scraper's
\* name() is in the answer once.
C14_ListedNamesAreSourceIds ==
    probe.pc = "listed" =>
        /\ SeqRange(probe.scraper_names) = {name(scraper) : scraper \in probe.registered}
        /\ Len(probe.scraper_names) = Cardinality(probe.registered)

\* C15: the number of competitions a request answered OK reports is the
\* number of documents it inserted; a candidate merged into an existing
\* document is not counted as inserted.
C15_ReportedCountIsInserted ==
    \A r \in Requests :
        (req[r].pc = "done" /\ req[r].status = "OK") =>
            req[r].competitions_count = req[r].inserted

\* The first document of the collection, in iteration order, that the name
\* fuzzy-matches; 0 when there is none.
FirstMatch(collection, comp_name) ==
    LET matching == {i \in 1..Len(collection) :
                        FuzzyMatchTable[comp_name][collection[i].name]}
    IN  IF matching = {} THEN 0
        ELSE CHOOSE i \in matching : \A j \in matching : i <= j

\* C16: first match wins.  While request r is the last request, a document
\* that was in the collection when r arrived and has changed since is, for
\* one of the candidates r's scrapers built, the first document in iteration
\* order that the candidate matches: a matching document further on is left
\* as it was.
C16_FirstMatchWins ==
    \A r \in Requests :
        Latest(r) =>
            \A i \in 1..Len(req[r].catalog_before) :
                db[i] # req[r].catalog_before[i] =>
                    \E scraper \in ScraperTypes :
                        LET candidates == Candidates(scraper, req[r].fetched[scraper])
                        IN  \E k \in 1..Len(candidates) :
                                FirstMatch(req[r].catalog_before, candidates[k].name) = i

\* C17: a request during which a store operation failed (a merge write while
\* a scraper's candidates were being resolved, or a read or write of the
\* handler's save loop) is not answered OK: the failure reaches the caller.
C17_StorageFailurePropagated ==
    \A r \in Requests :
        (req[r].pc = "done" /\ req[r].storage_error) => req[r].status # "OK"

\* C18: a run of all scrapers in which a scraper failed is not answered as if
\* all scrapers had succeeded.
C18_FailedScraperReported ==
    \A r \in Requests :
        (req[r].pc = "done" /\ req[r].kind = "all" /\ req[r].failed # {}) =>
            req[r].message # Some(<<"All scrapers ran successfully">>)

\* C19: a request for one scraper is answered NOT_FOUND only when its name is
\* not registered; a registered scraper that fails is answered otherwise.
C19_NotFoundOnlyIfUnregistered ==
    \A r \in Requests :
        (req[r].pc = "done" /\ req[r].kind = "one" /\ req[r].status = "NOT_FOUND") =>
            to_lowercase(req[r].scraper_name[1]) \notin
                get_scraper_names(ScraperManager_new)

\* The word pairs (w1, w2), w1 a word of the first title and w2 a word of the
\* second, both longer than 2, that are equal, or of which one contains the
\* other, or whose similarity exceeds 0.7.
CommonPairs(words1, words2) ==
    {pair \in (1..Len(words1)) \X (1..Len(words2)) :
        LET w1 == words1[pair[1]]
            w2 == words2[pair[2]]
        IN  /\ Len(w1) > 2
            /\ Len(w2) > 2
            /\ \/ w1 = w2
               \/ contains(w1, w2)
               \/ contains(w2, w1)
               \/ exceeds(calculate_similarity(w1, w2), 7, 10)}

\* The decision on the normalized, lower-cased titles na and nb, the common
\* count being the number of common word pairs.
Decision(na, nb) ==
    LET wordsA == split_whitespace(na)
        wordsB == split_whitespace(nb)
        commonCount == Cardinality(CommonPairs(wordsA, wordsB))
        maxWordCount == IF Len(wordsA) >= Len(wordsB) THEN Len(wordsA) ELSE Len(wordsB)
        distinctWords == Cardinality(SeqRange(wordsA) \cup SeqRange(wordsB))
    IN  \/ na = nb
        \/ contains(na, nb)
        \/ contains(nb, na)
        \/ exceeds(calculate_similarity(na, nb), 3, 4)
        \/ (maxWordCount > 0 /\ 2 * commonCount > maxWordCount)
        \/ (distinctWords > 0 /\ 5 * commonCount > 2 * distinctWords)

\* C20: fuzzy_match(a, b) is true exactly when, on the normalized, lower-cased
\* titles na and nb, one of these holds: na = nb; one contains the other;
\* their similarity exceeds 0.75; the number of common word pairs exceeds
\* half the larger word count; the number of common word pairs exceeds 0.4
\* times the number of distinct words of both.
C20_MatchIsTheDecision ==
    probe.pc = "matched" =>
        (probe.matched <=>
            Decision(to_lowercase(clean_competition_name(probe.title)),
                     to_lowercase(clean_competition_name(probe.other))))

\* The stop list, in lower case.
StopList == {to_lowercase(StopPatterns[i]) : i \in 1..Len(StopPatterns)}

\* The tokens of a sequence of tokens that are not on the stop list in any
\* casing.
RECURSIVE WithoutStopTokens(_)
WithoutStopTokens(tokens) ==
    IF tokens = <<>> THEN <<>>
    ELSE (IF to_lowercase(Head(tokens)) \in StopList THEN <<>> ELSE <<Head(tokens)>>)
         \o WithoutStopTokens(Tail(tokens))

\* C21: clean_competition_name removes stop-list entries as whole
\* whitespace-delimited tokens only and in every casing: the cleaned title is
\* the title without its trailing tag, with the tokens that are on the stop
\* list in some casing removed and every other token left as it is.
C21_WholeTokenRemoval ==
    probe.pc = "cleaned" =>
        probe.cleaned =
            join(WithoutStopTokens(split_whitespace(strip_source_tag(probe.title))),
                 <<" ">>)

\* C22: for non-empty, different strings a and b the similarity is the number
\* of distinct characters of a that occur in b, divided by the larger of the
\* two lengths counted in characters.
C22_DistinctCharacterOverlap ==
    (/\ probe.pc = "similarity"
     /\ probe.s1 # <<>>
     /\ probe.s2 # <<>>
     /\ probe.s1 # probe.s2) =>
        LET distinct == SeqRange(probe.s1) \cap SeqRange(probe.s2)
            longer == IF Len(probe.s1) >= Len(probe.s2)
                      THEN Len(probe.s1) ELSE Len(probe.s2)
        IN  probe.similarity[1] * longer = Cardinality(distinct) * probe.similarity[2]

\* The tags the scrapers append to a title.
SourceTags == { <<" ","[","H","K","U","]">>, <<" ","[","U","S","T","]">>,
                <<" ","[","C","T","F","]">> }

\* C23: the tag a scraper appends does not change the cleaned name: for a
\* title t, with or without square brackets of its own, and each of the tags
\* " [HKU]", " [UST]", " [CTF]", cleaning t with the tag appended gives what
\* cleaning t gives.
C23_TagDoesNotChangeCleanName ==
    probe.pc = "cleaned" =>
        \A tag \in SourceTags :
            clean_competition_name(probe.title \o tag) = probe.cleaned

\* C24: extraction never fails.  A scraper whose fetch returned content, of
\* whatever form, in a request during which no store operation failed, is
\* not among the request's failed scrapers, and a request all of whose
\* scrapers fetched content is answered OK.
C24_ExtractionNeverFails ==
    \A r \in Requests :
        ~req[r].storage_error =>
            /\ \A scraper \in req[r].ran :
                   req[r].fetched[scraper] # Err => scraper \notin req[r].failed
            /\ (/\ req[r].pc = "done"
                /\ req[r].ran # {}
                /\ \A scraper \in req[r].ran : req[r].fetched[scraper] # Err)
               => req[r].status = "OK"

\* C25: a title whose cleaned name is empty does not fuzzy-match a title
\* whose cleaned name is not empty.
C25_EmptyMatchesOnlyEmpty ==
    (/\ probe.pc = "matched"
     /\ probe.cleaned = <<>>
     /\ clean_competition_name(probe.other) # <<>>) =>
        ~probe.matched

\* C26: fuzzy_match is symmetric: matching the title against the other title
\* gives what matching the other title against the title gives.
C26_MatchSymmetric ==
    probe.pc = "matched" =>
        probe.matched = fuzzy_match(probe.other, probe.title)

\* No two documents of the collection have exactly the same name.
UniqueNames(collection) ==
    \A i, j \in 1..Len(collection) :
        i # j => collection[i].name # collection[j].name

\* C27: exact names stay unique.  When the names were unique in the
\* collection the first request found, they are unique in the collection
\* whatever the interleaving of the requests.
C27_ExactNamesUnique ==
    (req[1].pc # "idle" /\ UniqueNames(req[1].catalog_before)) => UniqueNames(db)

\* C28: update_competition answers NOT_FOUND only when no document has the
\* given id: when a document with the id exists and no store operation
\* fails, the answer is OK with the stored document, also when the submitted
\* content is the content already stored.
C28_UpdateNotFoundOnlyIfAbsent ==
    (/\ probe.pc = "updated"
     /\ ObjectId_parse_str(probe.id[1]) # Err
     /\ ~probe.storage_error
     /\ find_one_by_id(probe.before, probe.id[1].oid) # None) =>
        /\ probe.status = "OK"
        /\ probe.data = find_one_by_id(db, probe.id[1].oid)

\* The ids of the documents of a collection.
Ids(collection) == {collection[i].id : i \in 1..Len(collection)}

\* C29: the pipeline never deletes.  Every id that was in the collection when
\* a request arrived is in the collection during the request and after it,
\* whatever its answer.
C29_PipelineNeverDeletes ==
    \A r \in Requests :
        req[r].pc # "idle" => Ids(req[r].catalog_before) \subseteq Ids(db)

\* A request that found a document, changed the collection and then failed
\* with a store error has been answered.
C29_Witness ==
    \E r \in Requests :
        /\ req[r].pc = "done"
        /\ req[r].status = "INTERNAL_SERVER_ERROR"
        /\ req[r].catalog_before # <<>>
        /\ db # req[r].catalog_before
        /\ Latest(r)

\* C30: get_competitions uses page' = max(page, 1), 1 when no page is given,
\* and limit' = min(limit, 100), 10 when no limit is given, and skips exactly
\* (page' - 1) * limit' documents, the product being the mathematical one:
\* the handler answers and the skip's limbs are those of the product, whose
\* high limb is below 2^16.
C30_SkipIsExactProduct ==
    probe.pc = "done" =>
        LET page == IF probe.query_page \in {None, Some(u32(0, 0))} THEN u32(0, 1)
                    ELSE probe.query_page[1]
            limit == IF probe.query_limit = None THEN 10
                     ELSE IF probe.query_limit[1].hi > 0 \/ probe.query_limit[1].lo > 100
                          THEN 100 ELSE probe.query_limit[1].lo
            before == IF page.lo > 0 THEN u32(page.hi, page.lo - 1)
                      ELSE u32(page.hi - 1, Limb - 1)
        IN  /\ probe.status = "OK"
            /\ probe.page = page
            /\ probe.limit = u32(0, limit)
            /\ probe.skip.lo = (before.lo * limit) % Limb
            /\ probe.skip.hi = before.hi * limit + (before.lo * limit) \div Limb

====
